---- MODULE Spec2Model ----
(***************************************************************************)
(* Streaming-session synchronisation core of the Research Assistant        *)
(* front end: chatAPI.sendMessageStream (the SSE decoder), ChatInterface    *)
(* (handleSend / handleRegenerate) and App (sessions, history reloads).     *)
(*                                                                         *)
(* A JavaScript string is a sequence of one-character strings; a network   *)
(* read is a sequence of bytes, an ASCII byte being written as its         *)
(* character and the two bytes of U+00E9 as "C3" and "A9".                 *)
(***************************************************************************)
EXTENDS Integers, Sequences, FiniteSets, TLC

\* ------------------------------------------------------------------ bounds

\* Lines of one source in the decoder specification.
MaxLines == 2

\* Reads that deliver bytes, per source, in the decoder specification.
MaxReads == 2

\* Accepted submissions (handleSend, handleRegenerate) of one run.
MaxSubmits == 2

\* Sessions the store ever creates in one run.
MaxSessions == 2

\* Session-tab operations (create, duplicate, delete, rename) of one run.
MaxOps == 2
MaxActs == 3

\* Reads that deliver bytes to the stream requests of one run.
MaxStreamReads == 2

\* Files attached to the composer at one time.
MaxFiles == 1

\* The lines of the content of a search_results event given to the parser.
MaxResultLines == 3

\* ----------------------------------------------------- string primitives

\* The concatenation of a sequence of sequences (by halves: the evaluation
\* stays shallow on long strings).
RECURSIVE Flatten(_)
Flatten(ss) ==
  IF ss = <<>> THEN <<>>
  ELSE IF Len(ss) = 1 THEN ss[1]
  ELSE LET h == Len(ss) \div 2
       IN Flatten(SubSeq(ss, 1, h)) \o Flatten(SubSeq(ss, h + 1, Len(ss)))

Front(s) == SubSeq(s, 1, Len(s) - 1)

Last(s) == s[Len(s)]

\* String.prototype.trim's white space, as far as the alphabet has it.
IsSpace(c) == c \in {" ", "\t", "\r", "\n"}

RECURSIVE TrimStart(_)
TrimStart(s) ==
  IF s # <<>> /\ IsSpace(Head(s)) THEN TrimStart(Tail(s)) ELSE s

RECURSIVE TrimEnd(_)
TrimEnd(s) ==
  IF s # <<>> /\ IsSpace(Last(s)) THEN TrimEnd(Front(s)) ELSE s

Trim(s) == TrimEnd(TrimStart(s))

StartsWith(s, p) == Len(s) >= Len(p) /\ SubSeq(s, 1, Len(p)) = p

Slice(s, n) == SubSeq(s, n + 1, Len(s))

\* The index of the first "\n" of s, 0 when there is none.
IndexOfNL(s) ==
  IF \E i \in 1..Len(s) : s[i] = "\n"
  THEN CHOOSE i \in 1..Len(s) : s[i] = "\n" /\ \A j \in 1..(i - 1) : s[j] # "\n"
  ELSE 0

\* s.split('\n'): always at least one segment.
RECURSIVE Split(_)
Split(s) ==
  LET i == IndexOfNL(s)
  IN IF i = 0 THEN <<s>>
     ELSE <<SubSeq(s, 1, i - 1)>> \o Split(SubSeq(s, i + 1, Len(s)))

\* ------------------------------------------------------------ literals

DataPrefix == <<"d", "a", "t", "a", ":", " ">>
EventField == <<"e", "v", "e", "n", "t", ":">>
IdField == <<"i", "d", ":">>

TChunk == <<"c", "h", "u", "n", "k">>
TSearch == <<"s", "e", "a", "r", "c", "h", "_", "r", "e", "s", "u", "l", "t", "s">>
TToolCall == <<"t", "o", "o", "l", "_", "c", "a", "l", "l">>
TDone == <<"d", "o", "n", "e">>
TError == <<"e", "r", "r", "o", "r">>
TPing == <<"p", "i", "n", "g">>

MsgNoData ==
  <<"N", "o", " ", "d", "a", "t", "a", " ", "r", "e", "c", "e", "i", "v", "e", "d",
    " ", "f", "r", "o", "m", " ", "s", "t", "r", "e", "a", "m">>
MsgUnknownError ==
  <<"U", "n", "k", "n", "o", "w", "n", " ", "e", "r", "r", "o", "r">>
MsgRequestFailed ==
  <<"S", "t", "r", "e", "a", "m", "i", "n", "g", " ", "r", "e", "q", "u", "e", "s", "t",
    " ", "f", "a", "i", "l", "e", "d">>
MsgNoBody ==
  <<"N", "o", " ", "r", "e", "s", "p", "o", "n", "s", "e", " ", "b", "o", "d", "y">>
MsgStreamingError ==
  <<"S", "t", "r", "e", "a", "m", "i", "n", "g", " ", "e", "r", "r", "o", "r">>

\* ------------------------------------------------- TextDecoder (UTF-8)

\* decoder.decode(value, {stream: true}): a lead byte at the end of a read is
\* kept for the next read; an ill-formed sequence yields U+FFFD.
\* Byte i is decoded knowing the byte before it (the kept lead byte, for the
\* first byte of a read).
Utf8Decode(pending, bytes) ==
  LET n == Len(bytes)
      all == pending \o bytes
      k == Len(pending)
      piece(i) ==
        LET b == all[i]
            afterLead == i > 1 /\ all[i - 1] = "C3"
        IN IF b = "C3"
           THEN (IF afterLead THEN <<"U+FFFD">> ELSE <<>>)
           ELSE IF b = "A9"
           THEN IF afterLead THEN <<"U+E9">> ELSE <<"U+FFFD">>
           ELSE IF afterLead THEN <<"U+FFFD", b>> ELSE <<b>>
  IN [out |-> Flatten([i \in 1..n |-> piece(i + k)]),
      pending |-> IF all # <<>> /\ Last(all) = "C3" THEN <<"C3">> ELSE <<>>]

\* What the server writes for a string.
Utf8Encode(s) ==
  Flatten([i \in 1..Len(s) |-> IF s[i] = "U+E9" THEN <<"C3", "A9">> ELSE <<s[i]>>])

\* --------------------------------------------------------------- JSON

\* An event is [type, content]; content is <<>> when the field is missing and
\* <<s>> when it is the string s.
NoEvent == [type |-> <<>>, content |-> <<>>]

JsonEscape(s) ==
  Flatten([i \in 1..Len(s) |->
             CASE s[i] = "\n" -> <<"\\", "n">>
               [] s[i] = "\"" -> <<"\\", "\"">>
               [] s[i] = "\\" -> <<"\\", "\\">>
               [] OTHER -> <<s[i]>>])

\* The payload text of an event, as the stream endpoint writes it
\* (STREAMING.md: data: {"type": "chunk", "content": "Once "}).
JsonEncode(e) ==
  <<"{", "\"", "t", "y", "p", "e", "\"", ":", " ", "\"">> \o e.type \o <<"\"">>
  \o (IF e.content = <<>> THEN <<>>
      ELSE <<",", " ", "\"", "c", "o", "n", "t", "e", "n", "t", "\"", ":", " ", "\"">>
           \o JsonEscape(e.content[1]) \o <<"\"">>)
  \o <<"}">>

SearchText ==
  <<"1", ".", " ", "T", "\n", " ", " ", " ", "U", "R", "L", ":", " ", "u", "\n",
    " ", " ", " ", "s", "\n">>

EventTypes == {TChunk, TSearch, TToolCall, TDone, TError, TPing}

EventContents ==
  {<<>>, <<<<>>>>, <<<<"a", "b">>>>, <<<<"x", "y">>>>, <<<<"U+E9">>>>, <<SearchText>>,
   <<<<"H", "e", "l", "l", "o", " ">>>>, <<<<"w", "o", "r", "l", "d">>>>}

\* The events whose payload text JSON.parse accepts, within the alphabet.
EventUniverse == [type : EventTypes, content : EventContents]

\* JSON.parse(jsonStr): [ok, data]; a text that is no payload of the universe
\* is a parse failure (the catch of the line loop).
JsonTexts == {JsonEncode(e) : e \in EventUniverse}

JsonTable == [t \in JsonTexts |-> CHOOSE e \in EventUniverse : JsonEncode(e) = t]

JSONparse(s) ==
  IF s \in JsonTexts
  THEN [ok |-> TRUE, data |-> JsonTable[s]]
  ELSE [ok |-> FALSE, data |-> NoEvent]

\* data.content || fallback
ContentOr(data, fallback) ==
  IF data.content # <<>> /\ data.content[1] # <<>> THEN data.content[1] ELSE fallback

\* -------------------------------------- chatAPI.sendMessageStream

\* A callback made by sendMessageStream: text is its string argument (onChunk,
\* onDone, onError) and ev the decoded event it was made for, which is the
\* argument of onSearchData (NoEvent for a call not made for an event).
Call(cb, text, ev) == [cb |-> cb, text |-> text, ev |-> ev]

IsTerminal(c) == c.cb \in {"onDone", "onError"}

\* The state of one sendMessageStream invocation. pc: fetch (awaiting the
\* response), read (awaiting reader.read()), returned, threw (rejected).
NewStream ==
  [pc |-> "fetch", buffer |-> <<>>, pending |-> <<>>, fullResponse |-> <<>>,
   hasReceivedData |-> FALSE, how |-> "none", detail |-> <<>>, parseErrors |-> 0]

\* A decoder that forgets the unfinished line at the end of a read.
CarryOver_Dropped(parts) == <<>>

\* buffer = lines.pop() || ''
CarryOver(parts) == Last(parts)

\* A decoder that takes the done event's content whenever the event has one,
\* the empty string included (data.content ?? fullResponse).
DoneText_WheneverPresent(data, fullResponse) ==
  IF data.content # <<>> THEN data.content[1] ELSE fullResponse

\* onDone(data.content || fullResponse)
DoneText(data, fullResponse) == ContentOr(data, fullResponse)

\* A line loop that leaves the loop at a payload that fails JSON.parse.
ProcessLine_StopsAtParseError(st, line, hasSearchCb) ==
  LET trimmedLine == Trim(line)
  IN IF trimmedLine = <<>> THEN st
     ELSE IF StartsWith(trimmedLine, DataPrefix)
     THEN LET p == JSONparse(Slice(trimmedLine, 6))
              got == [st EXCEPT !.hasReceivedData = TRUE]
          IN IF ~p.ok THEN [got EXCEPT !.parseErrors = @ + 1, !.returned = TRUE]
             ELSE IF p.data.type = TChunk
             THEN LET content == ContentOr(p.data, <<>>)
                  IN [got EXCEPT !.fullResponse = @ \o content,
                                 !.calls = Append(@, Call("onChunk", content, p.data))]
             ELSE IF p.data.type \in {TSearch, TToolCall}
             THEN IF hasSearchCb
                  THEN [got EXCEPT !.calls = Append(@, Call("onSearchData", <<>>, p.data))]
                  ELSE got
             ELSE IF p.data.type = TDone
             THEN [got EXCEPT
                     !.calls = Append(@, Call("onDone", DoneText(p.data, got.fullResponse), p.data)),
                     !.returned = TRUE]
             ELSE IF p.data.type = TError
             THEN [got EXCEPT
                     !.calls = Append(@, Call("onError", ContentOr(p.data, MsgUnknownError), p.data)),
                     !.returned = TRUE]
             ELSE got
     ELSE st  \* event:, id: and unexpected lines are skipped

\* One line of the for loop; st = [fullResponse, hasReceivedData, parseErrors,
\* calls, returned], parseErrors counting the lines logged as unparsable.
ProcessLine(st, line, hasSearchCb) ==
  LET trimmedLine == Trim(line)
  IN IF trimmedLine = <<>> THEN st
     ELSE IF StartsWith(trimmedLine, DataPrefix)
     THEN LET p == JSONparse(Slice(trimmedLine, 6))
              got == [st EXCEPT !.hasReceivedData = TRUE]
          IN IF ~p.ok THEN [got EXCEPT !.parseErrors = @ + 1]
             ELSE IF p.data.type = TChunk
             THEN LET content == ContentOr(p.data, <<>>)
                  IN [got EXCEPT !.fullResponse = @ \o content,
                                 !.calls = Append(@, Call("onChunk", content, p.data))]
             ELSE IF p.data.type \in {TSearch, TToolCall}
             THEN IF hasSearchCb
                  THEN [got EXCEPT !.calls = Append(@, Call("onSearchData", <<>>, p.data))]
                  ELSE got
             ELSE IF p.data.type = TDone
             THEN [got EXCEPT
                     !.calls = Append(@, Call("onDone", DoneText(p.data, got.fullResponse), p.data)),
                     !.returned = TRUE]
             ELSE IF p.data.type = TError
             THEN [got EXCEPT
                     !.calls = Append(@, Call("onError", ContentOr(p.data, MsgUnknownError), p.data)),
                     !.returned = TRUE]
             ELSE got
     ELSE st  \* event:, id: and unexpected lines are skipped

RECURSIVE ProcessLines(_, _, _)

\* A line loop that goes on with the lines after a done or error event.
ProcessLines_PastTerminal(st, lines, hasSearchCb) ==
  IF lines = <<>> THEN st
  ELSE ProcessLines(ProcessLine(st, Head(lines), hasSearchCb), Tail(lines), hasSearchCb)

\* The for loop over the complete lines of a read; a return leaves it.
ProcessLines(st, lines, hasSearchCb) ==
  IF st.returned \/ lines = <<>> THEN st
  ELSE ProcessLines(ProcessLine(st, Head(lines), hasSearchCb), Tail(lines), hasSearchCb)

\* reader.read() resolved with {done: false, value}: [d, calls].
ReadValue(d, value, hasSearchCb) ==
  LET dec == Utf8Decode(d.pending, value)
      parts == Split(d.buffer \o dec.out)
      st == ProcessLines([fullResponse |-> d.fullResponse,
                          hasReceivedData |-> d.hasReceivedData,
                          parseErrors |-> d.parseErrors,
                          calls |-> <<>>, returned |-> FALSE],
                         Front(parts), hasSearchCb)
  IN [d |-> [pc |-> IF st.returned THEN "returned" ELSE "read",
             buffer |-> CarryOver(parts), pending |-> dec.pending,
             fullResponse |-> st.fullResponse,
             hasReceivedData |-> st.hasReceivedData,
             how |-> IF st.returned THEN "terminal" ELSE d.how,
             detail |-> d.detail, parseErrors |-> st.parseErrors],
      calls |-> st.calls]

\* The calls after the read loop, when the source ended without done/error.
EndOfSourceCalls(d) ==
  IF d.hasReceivedData /\ d.fullResponse # <<>>
  THEN <<Call("onDone", d.fullResponse, NoEvent)>>
  ELSE IF ~d.hasReceivedData
  THEN <<Call("onError", MsgNoData, NoEvent)>>
  ELSE <<>>

\* An end of source that first decodes the line left in the buffer.
ReadDone_DecodesBuffer(d) ==
  LET st == ProcessLine([fullResponse |-> d.fullResponse,
                         hasReceivedData |-> d.hasReceivedData,
                         parseErrors |-> d.parseErrors,
                         calls |-> <<>>, returned |-> FALSE], d.buffer, TRUE)
      d1 == [d EXCEPT !.pc = "returned", !.how = "closed",
                      !.fullResponse = st.fullResponse,
                      !.hasReceivedData = st.hasReceivedData,
                      !.parseErrors = st.parseErrors]
  IN [d |-> d1,
      calls |-> st.calls \o (IF st.returned THEN <<>> ELSE EndOfSourceCalls(d1))]

\* reader.read() resolved with {done: true}.
ReadDone(d) ==
  [d |-> [d EXCEPT !.pc = "returned", !.how = "closed"], calls |-> EndOfSourceCalls(d)]

\* reader.read() rejected: the catch of the read loop; message is error.message.
ReadThrow(d, message) ==
  [d |-> [d EXCEPT !.pc = "returned", !.how = "failed"],
   calls |-> <<Call("onError", IF message # <<>> THEN message ELSE MsgStreamingError,
                    NoEvent)>>]

\* fetch resolved with response.ok and a body.
FetchOk(d) == [d |-> [d EXCEPT !.pc = "read"], calls |-> <<>>]

\* fetch resolved with !response.ok; detail is error.detail of the JSON body
\* (<<>> when absent).
FetchNotOk(d, detail) ==
  [d |-> [d EXCEPT !.pc = "returned", !.how = "notok", !.detail = detail],
   calls |-> <<Call("onError", IF detail # <<>> THEN detail ELSE MsgRequestFailed,
                    NoEvent)>>]

\* fetch resolved ok but response.body is null.
FetchNoBody(d) ==
  [d |-> [d EXCEPT !.pc = "returned", !.how = "nobody"],
   calls |-> <<Call("onError", MsgNoBody, NoEvent)>>]

\* fetch resolved with !response.ok and a body that is not JSON:
\* response.json() rejects, so the promise of sendMessageStream rejects before
\* onError is reached.
FetchNotOkThrow(d) == [d |-> [d EXCEPT !.pc = "threw", !.how = "badbody"], calls |-> <<>>]

\* fetch rejected: the promise of sendMessageStream rejects and no callback is
\* made.
FetchThrow(d) == [d |-> [d EXCEPT !.pc = "threw", !.how = "threw"], calls |-> <<>>]

\* -------------------------------- ChatInterface: pure parts

AttachedHeader ==
  <<"\n", "\n", "-", "-", "-", " ", "A", "t", "t", "a", "c", "h", "e", "d", " ",
    "F", "i", "l", "e", "s", " ", "-", "-", "-", "\n">>

\* buildMessageWithFiles(userMessage) with the attachedFiles of the render.
buildMessageWithFiles(userMessage, files) ==
  IF Len(files) = 0 THEN userMessage
  ELSE userMessage \o AttachedHeader
       \o Flatten([i \in 1..Len(files) |->
                     <<"\n", "[", "F", "i", "l", "e", ":", " ">> \o files[i].name
                     \o <<"]", "\n">> \o files[i].content \o <<"\n">>])

IsDigit(c) == c \in {"0", "1", "2", "3", "4", "5", "6", "7", "8", "9"}

\* The length of the longest prefix of s made of digits: ^\d*
DigitsLen(s) ==
  IF \E i \in 1..Len(s) : ~IsDigit(s[i])
  THEN (CHOOSE i \in 1..Len(s) : ~IsDigit(s[i]) /\ \A j \in 1..(i - 1) : IsDigit(s[j])) - 1
  ELSE Len(s)

\* The length of the longest prefix of s made of white space: ^\s*
SpacesLen(s) ==
  IF \E i \in 1..Len(s) : ~IsSpace(s[i])
  THEN (CHOOSE i \in 1..Len(s) : ~IsSpace(s[i]) /\ \A j \in 1..(i - 1) : IsSpace(s[j])) - 1
  ELSE Len(s)

\* line.match(/^\d+\./)
MatchesNumeral(line) ==
  LET k == DigitsLen(line)
  IN k >= 1 /\ Len(line) > k /\ line[k + 1] = "."

\* line.replace(/^\d+\.\s*/, '') of a line that matches
StripNumeral(line) ==
  LET rest == Slice(line, DigitsLen(line) + 1)
  IN Slice(rest, SpacesLen(rest))

UrlMarker == <<" ", " ", " ", "U", "R", "L", ":">>

Indent == <<" ", " ", " ">>

\* One line of the parser's loop; acc = [results, cur], cur being <<>> while no
\* record is open and <<record>> otherwise.
SearchLine(acc, line) ==
  IF MatchesNumeral(line)
  THEN [results |-> acc.results \o acc.cur,
        cur |-> <<[title |-> StripNumeral(line), snippet |-> <<>>, url |-> <<>>]>>]
  ELSE IF StartsWith(line, UrlMarker)
  THEN IF acc.cur # <<>>
       THEN [acc EXCEPT !.cur[1].url = Trim(Slice(line, Len(UrlMarker)))]
       ELSE acc
  ELSE IF StartsWith(line, Indent) /\ acc.cur # <<>>
  THEN [acc EXCEPT !.cur[1].snippet = @ \o Trim(line) \o <<" ">>]
  ELSE acc

RECURSIVE SearchLines(_, _)
SearchLines(acc, lines) ==
  IF lines = <<>> THEN acc ELSE SearchLines(SearchLine(acc, Head(lines)), Tail(lines))

\* A parser that forgets the record still open at the end of the input.
ParseSearchResults_DropsOpenRecord(content) ==
  SearchLines([results |-> <<>>, cur |-> <<>>], Split(content)).results

\* The records parsed from the content of a search_results event.
ParseSearchResults(content) ==
  LET acc == SearchLines([results |-> <<>>, cur |-> <<>>], Split(content))
  IN acc.results \o acc.cur

\* The content of a search_results event is missing: searchData.content.split
\* throws and the callback's catch logs it.
SearchDataThrows(ev) == ev.type = TSearch /\ ev.content = <<>>

\* An onSearchData that empties searchResults when the content cannot be
\* parsed.
OnSearchData_ClearsOnFailure(searchResults, ev) ==
  IF ev.type = TSearch /\ ev.content # <<>>
  THEN ParseSearchResults(ev.content[1])
  ELSE <<>>

\* The onSearchData callback of handleSend: the new value of searchResults.
\* A missing content makes split throw, which the callback's catch swallows.
OnSearchData(searchResults, ev) ==
  IF ev.type = TSearch /\ ev.content # <<>>
  THEN ParseSearchResults(ev.content[1])
  ELSE searchResults

\* A token estimate that rounds down.
TokenEstimate_RoundsDown(fullResponse) == Len(fullResponse) \div 4

\* Math.ceil(fullResponse.length / 4)
TokenEstimate(fullResponse) == (Len(fullResponse) + 3) \div 4

\* The non-terminal callbacks of one read applied to the invocation's closure
\* and the component state; c = [fullResponse, streamingMessage, searchResults,
\* tokenCount], isSend telling handleSend's callbacks from handleRegenerate's.
\* An onChunk that shows the chunk just received instead of the text so far.
OnChunk_ShowsLastChunk(c, chunk, isSend) ==
  LET full == c.fullResponse \o chunk
  IN [c EXCEPT !.fullResponse = full,
               !.streamingMessage = chunk,
               !.tokenCount = IF isSend THEN TokenEstimate(full) ELSE @]

\* The onChunk callback of handleSend and handleRegenerate:
\* fullResponse += chunk; setStreamingMessage(fullResponse); handleSend
\* also reports the token estimate.
OnChunk(c, chunk, isSend) ==
  LET full == c.fullResponse \o chunk
  IN [c EXCEPT !.fullResponse = full,
               !.streamingMessage = full,
               !.tokenCount = IF isSend THEN TokenEstimate(full) ELSE @]

RECURSIVE ApplyProgress(_, _, _)
ApplyProgress(c, calls, isSend) ==
  IF calls = <<>> \/ IsTerminal(Head(calls)) THEN c
  ELSE LET call == Head(calls)
           next ==
             IF call.cb = "onChunk"
             THEN OnChunk(c, call.text, isSend)
             ELSE [c EXCEPT !.searchResults = OnSearchData(@, call.ev),
                            !.searchErrors = IF SearchDataThrows(call.ev) THEN @ + 1 ELSE @]
       IN ApplyProgress(next, Tail(calls), isSend)

\* -------------------------------------------------- App: pure parts

\* No session: activeSessionId is null (ids of the store are positive).
Null == 0

\* The effect on [activeSessionId, isStreaming] after a render that changed
\* one of them: the previous timer is cleared by the cleanup, then a reload
\* is scheduled, or the history is emptied. [timer, messages]
UseEffect(a0, s0, a1, s1, timer, msgs) ==
  IF a0 = a1 /\ s0 = s1 THEN [timer |-> timer, messages |-> msgs]
  ELSE IF a1 # Null /\ ~s1 THEN [timer |-> a1, messages |-> msgs]
  ELSE IF a1 = Null THEN [timer |-> Null, messages |-> <<>>]
  ELSE [timer |-> Null, messages |-> msgs]

\* sessions.filter((s) => s.id !== sessionId)
RECURSIVE Without(_, _)
Without(ss, id) ==
  IF ss = <<>> THEN <<>>
  ELSE (IF Head(ss) = id THEN <<>> ELSE <<Head(ss)>>) \o Without(Tail(ss), id)

\* The activeSessionId handleDeleteSession sets when it deleted the active
\* session, from the sessions of its render.
ActiveAfterDelete(ss, id) ==
  IF Len(ss) > 1
  THEN LET remaining == Without(ss, id)
       IN IF remaining # <<>> THEN remaining[1] ELSE Null
  ELSE Null

\* ------------------------------------------------------------ state

VARIABLES
  \* the decoder on its own: one sendMessageStream call fed a source
  wire,      \* bytes of the source not yet read
  sd,        \* the invocation's state (NewStream)
  sdCalls,   \* the callbacks made so far, in order
  sdWhole,   \* the callbacks of the same source delivered in one read
  sdSearch,  \* whether an onSearchData callback was passed
  sdCarried, \* whether some read so far ended inside a line
  sdReads,   \* reads resolved with a value so far
  \* the session store behind sessionsAPI
  stSessions,       \* ids of the stored sessions, as sessionsAPI.list returns them
  stHistory,        \* id -> the stored messages of the session
  stNextId,         \* the id the next created session gets
  \* App
  sessions,         \* ids of App.sessions, in list order
  activeSessionId,
  messages,
  appIsStreaming,   \* App.isStreaming
  tokenCount,
  selectedModel,
  effTimer,         \* the session the pending 300 ms timer of the effect reloads, or Null
  doneTimers,       \* the sessions the pending 1500 ms timers reload, oldest first
  loads,            \* id -> sessionsAPI.getMessages calls in flight
  ops,              \* the calls of App's handlers awaiting the store
  nOps,             \* session-tab operations started so far
  \* ChatInterface
  input,
  attachedFiles,
  loading,
  isStreaming,
  streamingMessage,
  searchResults,
  frames            \* the accepted handleSend / handleRegenerate invocations, in order

decVars == <<wire, sd, sdCalls, sdWhole, sdSearch, sdCarried, sdReads>>

storeVars == <<stSessions, stHistory, stNextId>>

appVars ==
  <<sessions, activeSessionId, messages, appIsStreaming, tokenCount, selectedModel,
    effTimer, doneTimers, loads, ops, nOps>>

chatVars ==
  <<input, attachedFiles, loading, isStreaming, streamingMessage, searchResults, frames>>

vars == <<decVars, storeVars, appVars, chatVars>>

SessionIds == 1..MaxSessions

\* The first turn of a session the store holds at start.
FirstTurn ==
  <<[role |-> "user", content |-> <<"h", "i">>],
    [role |-> "assistant", content |-> <<"a", "b">>]>>

\* The state of the application when nothing has been done yet.
Idle ==
  /\ sessions = <<>>
  /\ activeSessionId = Null
  /\ messages = <<>>
  /\ appIsStreaming = FALSE
  /\ tokenCount = 0
  /\ selectedModel = Null
  /\ effTimer = Null
  /\ doneTimers = <<>>
  /\ loads = [i \in SessionIds |-> 0]
  /\ nOps = 0
  /\ input = <<>>
  /\ attachedFiles = <<>>
  /\ loading = FALSE
  /\ isStreaming = FALSE
  /\ streamingMessage = <<>>
  /\ searchResults = <<>>
  /\ frames = <<>>

\* ------------------------------------- the decoder's specification

Ev(type, content) == [type |-> type, content |-> content]

DataLine(e) == DataPrefix \o JsonEncode(e)

\* The lines a source is made of (without their "\n").
DecLines ==
  { DataLine(Ev(TChunk, <<<<"a", "b">>>>)),
    DataLine(Ev(TChunk, <<<<>>>>)),
    DataLine(Ev(TChunk, <<<<"U+E9">>>>)),
    DataLine(Ev(TSearch, <<SearchText>>)),
    DataLine(Ev(TDone, <<<<"x", "y">>>>)),
    DataLine(Ev(TDone, <<>>)),
    DataLine(Ev(TDone, <<<<>>>>)),
    DataLine(Ev(TError, <<<<"x", "y">>>>)),
    DataLine(Ev(TError, <<>>)),
    DataPrefix \o <<"{">>,
    <<>>,
    EventField \o <<" ", "x">>,
    <<" ">> \o DataLine(Ev(TChunk, <<<<"a", "b">>>>)) \o <<"\r">> }

JoinLines(ls) == Flatten([i \in 1..Len(ls) |-> ls[i] \o <<"\n">>])

\* The sources: up to MaxLines lines, the last one with or without its "\n".
Sources ==
  { Utf8Encode(IF nl \/ ls = <<>> THEN JoinLines(ls) ELSE Front(JoinLines(ls))) :
      ls \in UNION {[1..n -> DecLines] : n \in 0..MaxLines}, nl \in BOOLEAN }

\* The callbacks of a source delivered in a single read and then closed.
WholeCalls(source, hasSearchCb) ==
  LET r == ReadValue(FetchOk(NewStream).d, source, hasSearchCb)
  IN IF r.d.pc = "returned" THEN r.calls ELSE r.calls \o ReadDone(r.d).calls

ErrorTexts == {<<>>, <<"x", "y">>}

DecInit ==
  /\ Idle
  /\ ops = <<>>
  /\ stSessions = <<>>
  /\ stHistory = [i \in SessionIds |-> <<>>]
  /\ stNextId = 1
  /\ wire \in Sources
  /\ sdSearch \in BOOLEAN
  /\ sdWhole = WholeCalls(wire, sdSearch)
  /\ sd = NewStream
  /\ sdCalls = <<>>
  /\ sdCarried = FALSE
  /\ sdReads = 0

DecApply(r) ==
  /\ sd' = r.d
  /\ sdCalls' = sdCalls \o r.calls

DFetchOk ==
  /\ sd.pc = "fetch"
  /\ DecApply(FetchOk(sd))
  /\ UNCHANGED <<wire, sdWhole, sdSearch, sdCarried, sdReads, storeVars, appVars, chatVars>>

DFetchNotOk ==
  /\ sd.pc = "fetch"
  /\ \E detail \in ErrorTexts : DecApply(FetchNotOk(sd, detail))
  /\ UNCHANGED <<wire, sdWhole, sdSearch, sdCarried, sdReads, storeVars, appVars, chatVars>>

DFetchNotOkThrow ==
  /\ sd.pc = "fetch"
  /\ DecApply(FetchNotOkThrow(sd))
  /\ UNCHANGED <<wire, sdWhole, sdSearch, sdCarried, sdReads, storeVars, appVars, chatVars>>

DFetchNoBody ==
  /\ sd.pc = "fetch"
  /\ DecApply(FetchNoBody(sd))
  /\ UNCHANGED <<wire, sdWhole, sdSearch, sdCarried, sdReads, storeVars, appVars, chatVars>>

DFetchThrow ==
  /\ sd.pc = "fetch"
  /\ DecApply(FetchThrow(sd))
  /\ UNCHANGED <<wire, sdWhole, sdSearch, sdCarried, sdReads, storeVars, appVars, chatVars>>

\* A read delivers any prefix of what is left of the source; the last read
\* the bound allows delivers all of it.
DRead ==
  /\ sd.pc = "read"
  /\ wire # <<>>
  /\ sdReads < MaxReads
  /\ sdReads' = sdReads + 1
  /\ \E n \in 1..Len(wire) :
       /\ sdReads' = MaxReads => n = Len(wire)
       /\ DecApply(ReadValue(sd, SubSeq(wire, 1, n), sdSearch))
       /\ wire' = SubSeq(wire, n + 1, Len(wire))
  /\ sdCarried' = (sdCarried \/ sd'.buffer # <<>>)
  /\ UNCHANGED <<sdWhole, sdSearch, storeVars, appVars, chatVars>>

DClose ==
  /\ sd.pc = "read"
  /\ wire = <<>>
  /\ DecApply(ReadDone(sd))
  /\ UNCHANGED <<wire, sdWhole, sdSearch, sdCarried, sdReads, storeVars, appVars, chatVars>>

DReadThrow ==
  /\ sd.pc = "read"
  /\ \E message \in ErrorTexts : DecApply(ReadThrow(sd, message))
  /\ UNCHANGED <<wire, sdWhole, sdSearch, sdCarried, sdReads, storeVars, appVars, chatVars>>

DecNext ==
  \/ DFetchOk
  \/ DFetchNotOk
  \/ DFetchNotOkThrow
  \/ DFetchNoBody
  \/ DFetchThrow
  \/ DRead
  \/ DClose
  \/ DReadThrow

SpecDecoder == DecInit /\ [][DecNext]_vars

\* ---------------------------------- the application's specification

\* What the user types: the composer specification tries more of it than the
\* specification of the whole application.
ChatInputs == {<<>>, <<" ">>, <<"h", "i">>}

AppInputs == {<<"h", "i">>}

TheFile == [name |-> <<"f">>, content |-> <<"c">>]

\* The lines a stream request's source is made of; each read delivers one.
ChatLines ==
  { DataLine(Ev(TChunk, <<<<"a", "b">>>>)),
    DataLine(Ev(TChunk, <<<<>>>>)),
    DataLine(Ev(TChunk, <<<<"H", "e", "l", "l", "o", " ">>>>)),
    DataLine(Ev(TChunk, <<<<"w", "o", "r", "l", "d">>>>)),
    DataLine(Ev(TSearch, <<SearchText>>)),
    DataLine(Ev(TSearch, <<>>)),
    DataLine(Ev(TDone, <<<<"x", "y">>>>)),
    DataLine(Ev(TDone, <<<<>>>>)),
    DataLine(Ev(TDone, <<>>)),
    DataLine(Ev(TError, <<>>)),
    DataPrefix \o <<"{">> }

ChatReads == {Utf8Encode(l \o <<"\n">>) : l \in ChatLines}

\* The lines of a stream request in the specification of the whole application.
AppLines ==
  { DataLine(Ev(TChunk, <<<<"a", "b">>>>)),
    DataLine(Ev(TDone, <<>>)),
    DataLine(Ev(TError, <<>>)) }

AppReads == {Utf8Encode(l \o <<"\n">>) : l \in AppLines}

\* A call of one of App's handlers that awaits the store: the handler, its
\* argument, and the sessions and activeSessionId of the render it was created
\* in; then is the id handleMessageSent sets after its loadSessions.
Op(op, id, ss, active, then) ==
  [op |-> op, id |-> id, sessions |-> ss, active |-> active, then |-> then]

RemoveAt(q, i) == SubSeq(q, 1, i - 1) \o SubSeq(q, i + 1, Len(q))

InSeq(x, q) == \E i \in DOMAIN q : q[i] = x

\* One batch of App state updates followed by the effect of the render.
Commit(a1, s1, m1) ==
  LET e == UseEffect(activeSessionId, appIsStreaming, a1, s1, effTimer, m1)
  IN /\ activeSessionId' = a1
     /\ appIsStreaming' = s1
     /\ effTimer' = e.timer
     /\ messages' = e.messages

Init ==
  /\ wire = <<>>
  /\ sd = NewStream
  /\ sdCalls = <<>>
  /\ sdWhole = <<>>
  /\ sdSearch = FALSE
  /\ sdCarried = FALSE
  /\ sdReads = 0
  /\ Idle
  /\ \E n \in 0..1 :
       /\ stSessions = [i \in 1..n |-> i]
       /\ stHistory = [i \in SessionIds |-> IF i <= n THEN FirstTurn ELSE <<>>]
       /\ stNextId = n + 1
  \* the loadSessions of the mount effect
  /\ ops = <<Op("list", Null, <<>>, Null, Null)>>

\* ---- ChatInterface

handleKeyValidated ==
  /\ selectedModel = Null
  /\ selectedModel' = 1
  /\ UNCHANGED <<decVars, storeVars, chatVars, sessions, activeSessionId, messages,
                 appIsStreaming, tokenCount, effTimer, doneTimers, loads, ops, nOps>>

\* The textarea's onChange (it is disabled without a model and while sending)
\* and the clear button, which is enabled whenever there is input.
setInput(Inputs) ==
  /\ \E v \in Inputs \cup {<<>>} :
       /\ v # input
       /\ v = <<>> \/ (selectedModel # Null /\ ~loading /\ ~isStreaming)
       /\ input' = v
  /\ UNCHANGED <<decVars, storeVars, appVars, attachedFiles, loading, isStreaming,
                 streamingMessage, searchResults, frames>>

handleFileSelect ==
  /\ ~loading /\ ~isStreaming
  /\ Len(attachedFiles) < MaxFiles
  /\ attachedFiles' = attachedFiles \o <<TheFile>>
  /\ UNCHANGED <<decVars, storeVars, appVars, input, loading, isStreaming,
                 streamingMessage, searchResults, frames>>

handleRemoveFile ==
  /\ \E i \in DOMAIN attachedFiles : attachedFiles' = RemoveAt(attachedFiles, i)
  /\ UNCHANGED <<decVars, storeVars, appVars, input, loading, isStreaming,
                 streamingMessage, searchResults, frames>>

\* An invocation of handleSend or handleRegenerate. pc: create (awaiting
\* sessionsAPI.create), stream (awaiting sendMessageStream), end. sessionId is
\* the prop of the render, which is also the activeSessionId the render's
\* onMessageSent reads. creates, reqs, chunks (the chunk texts received, joined),
\* terminals, sent and alerts record what the invocation did.
NewFrame(kind, prompt, sessionId) ==
  [kind |-> kind, pc |-> "stream", prompt |-> prompt, sessionId |-> sessionId,
   currentSessionId |-> sessionId, fullResponse |-> <<>>, st |-> NewStream,
   reads |-> 0, creates |-> 0, reqs |-> <<>>, chunks |-> <<>>, terminals |-> <<>>,
   sent |-> <<>>, alerts |-> 0, searchErrors |-> 0]

\* A request that names the session of the render, not the one just created.
OpenStream_PropId(fr) ==
  [fr EXCEPT !.pc = "stream",
             !.st = NewStream,
             !.reqs = Append(@, [session_id |-> fr.sessionId, prompt |-> fr.prompt])]

\* chatAPI.sendMessageStream is called: the stream request is opened.
OpenStream(fr) ==
  [fr EXCEPT !.pc = "stream",
             !.st = NewStream,
             !.reqs = Append(@, [session_id |-> fr.currentSessionId,
                                 prompt |-> fr.prompt])]

\* A guard that forgets to ask for a selected model.
SendAccepted_WithoutModel ==
  ~((Trim(input) = <<>> /\ Len(attachedFiles) = 0) \/ loading \/ isStreaming)

\* The guard of handleSend: whether the call goes on.
SendAccepted ==
  ~((Trim(input) = <<>> /\ Len(attachedFiles) = 0)
    \/ selectedModel = Null \/ loading \/ isStreaming)

\* A guard that lets a regeneration start while another submission is running.
RegenerateAccepted_WhileBusy == ~(selectedModel = Null)

\* The guard of handleRegenerate.
RegenerateAccepted == ~(selectedModel = Null \/ loading \/ isStreaming)

\* A call of handleSend up to its first await: it returns at once when its
\* guard rejects it.
handleSend ==
  IF ~SendAccepted THEN UNCHANGED vars
  ELSE
  /\ Len(frames) < MaxSubmits /\ Len(frames) + nOps < MaxActs
  /\ LET userMessage == Trim(input)
         messageWithFiles == buildMessageWithFiles(userMessage, attachedFiles)
         fr == NewFrame("send", messageWithFiles, activeSessionId)
     IN frames' = Append(frames,
                         IF fr.currentSessionId # Null THEN OpenStream(fr)
                         ELSE [fr EXCEPT !.pc = "create", !.creates = 1])
  /\ input' = <<>>
  /\ attachedFiles' = <<>>
  /\ loading' = TRUE
  /\ isStreaming' = TRUE
  /\ streamingMessage' = <<>>
  /\ Commit(activeSessionId, TRUE, messages)
  /\ UNCHANGED <<decVars, storeVars, sessions, tokenCount, selectedModel, doneTimers,
                 loads, ops, nOps, searchResults>>

\* The user texts a regenerate button of the rendered messages resends.
RegenerateTexts ==
  { messages[i - 1].content :
      i \in {j \in 2..Len(messages) :
               messages[j].role = "assistant" /\ messages[j - 1].role = "user"} }

\* A handleRegenerate that empties the composer's attachments as handleSend
\* does.
handleRegenerate_ClearsFiles ==
  /\ RegenerateAccepted
  /\ Len(frames) < MaxSubmits /\ Len(frames) + nOps < MaxActs
  /\ \E lastUserMessage \in RegenerateTexts :
       frames' = Append(frames, OpenStream(NewFrame("regen", lastUserMessage, activeSessionId)))
  /\ loading' = TRUE
  /\ isStreaming' = TRUE
  /\ streamingMessage' = <<>>
  /\ attachedFiles' = <<>>
  /\ Commit(activeSessionId, TRUE, messages)
  /\ UNCHANGED <<decVars, storeVars, sessions, tokenCount, selectedModel, doneTimers,
                 loads, ops, nOps, input, searchResults>>

\* A handleRegenerate that does not call onStreamingChange.
handleRegenerate_NoNotification ==
  /\ RegenerateAccepted
  /\ Len(frames) < MaxSubmits /\ Len(frames) + nOps < MaxActs
  /\ \E lastUserMessage \in RegenerateTexts :
       frames' = Append(frames, OpenStream(NewFrame("regen", lastUserMessage, activeSessionId)))
  /\ loading' = TRUE
  /\ isStreaming' = TRUE
  /\ streamingMessage' = <<>>
  /\ Commit(activeSessionId, appIsStreaming, messages)
  /\ UNCHANGED <<decVars, storeVars, sessions, tokenCount, selectedModel, doneTimers,
                 loads, ops, nOps, input, attachedFiles, searchResults>>

\* handleRegenerate up to its await.
handleRegenerate ==
  /\ RegenerateAccepted
  /\ Len(frames) < MaxSubmits /\ Len(frames) + nOps < MaxActs
  /\ \E lastUserMessage \in RegenerateTexts :
       frames' = Append(frames, OpenStream(NewFrame("regen", lastUserMessage, activeSessionId)))
  /\ loading' = TRUE
  /\ isStreaming' = TRUE
  /\ streamingMessage' = <<>>
  /\ Commit(activeSessionId, TRUE, messages)
  /\ UNCHANGED <<decVars, storeVars, sessions, tokenCount, selectedModel, doneTimers,
                 loads, ops, nOps, input, attachedFiles, searchResults>>

\* sessionsAPI.create of handleSend resolved: the id is used for the request.
SendCreateOk ==
  /\ stNextId <= MaxSessions
  /\ \E f \in DOMAIN frames :
       /\ frames[f].pc = "create"
       /\ frames' = [frames EXCEPT
                       ![f] = OpenStream([frames[f] EXCEPT !.currentSessionId = stNextId])]
  /\ stSessions' = <<stNextId>> \o stSessions
  /\ stNextId' = stNextId + 1
  /\ UNCHANGED <<decVars, stHistory, appVars, input, attachedFiles, loading, isStreaming,
                 streamingMessage, searchResults>>

\* A handleSend whose catch gives the submission up.
SendCreateFail_Aborts ==
  /\ \E f \in DOMAIN frames :
       /\ frames[f].pc = "create"
       /\ frames' = [frames EXCEPT ![f].pc = "end"]
  /\ UNCHANGED <<decVars, storeVars, appVars, input, attachedFiles, loading, isStreaming,
                 streamingMessage, searchResults>>

\* sessionsAPI.create of handleSend rejected: the send goes on without a session.
SendCreateFail ==
  /\ \E f \in DOMAIN frames :
       /\ frames[f].pc = "create"
       /\ frames' = [frames EXCEPT ![f] = OpenStream(frames[f])]
  /\ UNCHANGED <<decVars, storeVars, appVars, input, attachedFiles, loading, isStreaming,
                 streamingMessage, searchResults>>

\* The synchronous part of App.handleMessageSent, which reads the
\* activeSessionId of the render the submission was made in: [ops, doneTimers].
handleMessageSent(active, newSessionId) ==
  IF newSessionId # Null /\ newSessionId # active
  THEN [ops |-> Append(ops, Op("list", Null, <<>>, active, newSessionId)),
        doneTimers |-> doneTimers]
  ELSE IF active # Null
  THEN [ops |-> ops, doneTimers |-> Append(doneTimers, active)]
  ELSE [ops |-> ops, doneTimers |-> doneTimers]

\* The stream endpoint saves the turn of a request that names a stored session
\* when it ends the stream with done.
Persisted(req, call) ==
  IF call.ev.type = TDone /\ InSeq(req.session_id, stSessions)
  THEN [stHistory EXCEPT ![req.session_id] =
          @ \o <<[role |-> "user", content |-> req.prompt],
                 [role |-> "assistant", content |-> call.text]>>]
  ELSE stHistory

\* An onDone that reports the session of the render, not currentSessionId.
ReportedSessionId_OfRender(fr) == IF fr.kind = "send" THEN fr.sessionId ELSE Null

\* The third argument of onMessageSent: handleSend passes
\* currentSessionId || undefined, handleRegenerate passes nothing.
ReportedSessionId(fr) == IF fr.kind = "send" THEN fr.currentSessionId ELSE Null

\* A step of the sendMessageStream call of invocation f, r being what the
\* decoder did, followed by what handleSend / handleRegenerate do with it.
StreamStep(f, r, reads) ==
  LET fr == frames[f]
      isSend == fr.kind = "send"
      c == ApplyProgress([fullResponse |-> fr.fullResponse,
                          streamingMessage |-> streamingMessage,
                          searchResults |-> searchResults,
                          tokenCount |-> tokenCount,
                          searchErrors |-> fr.searchErrors], r.calls, isSend)
      term == IF r.calls # <<>> /\ IsTerminal(Last(r.calls)) THEN <<Last(r.calls)>> ELSE <<>>
      returned == r.d.pc \in {"returned", "threw"}
      \* the locals of a call that returned are gone
      fr1 == [fr EXCEPT !.st = IF returned THEN NewStream ELSE r.d,
                        !.fullResponse = IF returned THEN <<>> ELSE c.fullResponse,
                        !.chunks = c.fullResponse,
                        !.searchErrors = c.searchErrors,
                        !.reads = reads]
  IN /\ tokenCount' = c.tokenCount
     /\ IF term # <<>> /\ term[1].cb = "onDone"
        THEN \* the onDone callback, then App.handleMessageSent
             LET finalResponse == term[1].text
                 newSessionId == ReportedSessionId(fr)
                 h == handleMessageSent(fr.sessionId, newSessionId)
             IN /\ frames' = [frames EXCEPT ![f] =
                                [fr1 EXCEPT !.pc = "end",
                                            !.terminals = Append(@, term[1]),
                                            !.sent = Append(@, [user |-> fr.prompt,
                                                                assistant |-> finalResponse,
                                                                newSessionId |-> newSessionId])]]
                /\ streamingMessage' = <<>>
                /\ isStreaming' = FALSE
                /\ loading' = FALSE
                /\ searchResults' = IF isSend THEN <<>> ELSE c.searchResults
                /\ Commit(activeSessionId, FALSE, messages)
                /\ ops' = h.ops
                /\ doneTimers' = h.doneTimers
                /\ stHistory' = Persisted(Last(fr.reqs), term[1])
        ELSE IF term # <<>>
        THEN \* the onError callback
             /\ frames' = [frames EXCEPT ![f] =
                             [fr1 EXCEPT !.pc = "end",
                                         !.terminals = Append(@, term[1]),
                                         !.alerts = @ + 1]]
             /\ streamingMessage' = <<>>
             /\ isStreaming' = FALSE
             /\ loading' = FALSE
             /\ searchResults' = c.searchResults
             /\ Commit(activeSessionId, FALSE, messages)
             /\ UNCHANGED <<ops, doneTimers, stHistory>>
        ELSE IF r.d.pc = "threw"
        THEN \* the catch of handleSend / handleRegenerate
             /\ frames' = [frames EXCEPT ![f] = [fr1 EXCEPT !.pc = "end", !.alerts = @ + 1]]
             /\ streamingMessage' = <<>>
             /\ isStreaming' = FALSE
             /\ loading' = FALSE
             /\ searchResults' = c.searchResults
             /\ Commit(activeSessionId, FALSE, messages)
             /\ UNCHANGED <<ops, doneTimers, stHistory>>
        ELSE \* no terminal callback: progress, or a return without one
             /\ frames' = [frames EXCEPT ![f] =
                             [fr1 EXCEPT !.pc = IF r.d.pc = "returned" THEN "end" ELSE @]]
             /\ streamingMessage' = c.streamingMessage
             /\ searchResults' = c.searchResults
             /\ UNCHANGED <<isStreaming, loading, activeSessionId, appIsStreaming,
                            effTimer, messages, ops, doneTimers, stHistory>>
     /\ UNCHANGED <<decVars, stSessions, stNextId, sessions, selectedModel, loads, nOps,
                    input, attachedFiles>>

Awaiting(f, pc) == frames[f].pc = "stream" /\ frames[f].st.pc = pc

SFetchOk ==
  \E f \in DOMAIN frames :
    /\ Awaiting(f, "fetch")
    /\ StreamStep(f, FetchOk(frames[f].st), frames[f].reads)

SFetchNotOk(Details) ==
  \E f \in DOMAIN frames :
    /\ Awaiting(f, "fetch")
    /\ \E detail \in Details : StreamStep(f, FetchNotOk(frames[f].st, detail), frames[f].reads)

SFetchNoBody ==
  \E f \in DOMAIN frames :
    /\ Awaiting(f, "fetch")
    /\ StreamStep(f, FetchNoBody(frames[f].st), frames[f].reads)

SFetchThrow ==
  \E f \in DOMAIN frames :
    /\ Awaiting(f, "fetch")
    /\ StreamStep(f, FetchThrow(frames[f].st), frames[f].reads)

RECURSIVE ReadsSoFar(_)
ReadsSoFar(fs) == IF fs = <<>> THEN 0 ELSE Head(fs).reads + ReadsSoFar(Tail(fs))

SRead(Reads) ==
  \E f \in DOMAIN frames :
    /\ Awaiting(f, "read")
    /\ ReadsSoFar(frames) < MaxStreamReads
    /\ \E value \in Reads :
         StreamStep(f, ReadValue(frames[f].st, value, frames[f].kind = "send"),
                    frames[f].reads + 1)

SClose ==
  \E f \in DOMAIN frames :
    /\ Awaiting(f, "read")
    /\ StreamStep(f, ReadDone(frames[f].st), frames[f].reads)

SReadThrow(Messages) ==
  \E f \in DOMAIN frames :
    /\ Awaiting(f, "read")
    /\ \E message \in Messages : StreamStep(f, ReadThrow(frames[f].st, message), frames[f].reads)

\* ---- App

handleSelectSession ==
  /\ nOps < MaxOps /\ Len(frames) + nOps < MaxActs
  /\ nOps' = nOps + 1
  /\ \E i \in DOMAIN sessions :
       /\ sessions[i] # activeSessionId
       /\ Commit(sessions[i], appIsStreaming, messages)
  /\ UNCHANGED <<decVars, storeVars, chatVars, sessions, tokenCount, selectedModel,
                 doneTimers, loads, ops>>

\* A handler of the session tabs is called and awaits the store.
StartOp(op) ==
  /\ nOps < MaxOps /\ Len(frames) + nOps < MaxActs
  /\ nOps' = nOps + 1
  /\ ops' = Append(ops, op)
  /\ UNCHANGED <<decVars, storeVars, chatVars, sessions, activeSessionId, messages,
                 appIsStreaming, tokenCount, selectedModel, effTimer, doneTimers, loads>>

handleCreateSession == StartOp(Op("create", Null, sessions, activeSessionId, Null))

handleDuplicateSession ==
  \E i \in DOMAIN sessions : StartOp(Op("duplicate", sessions[i], sessions, activeSessionId, Null))

\* confirm() answered yes.
handleDeleteSession ==
  \E i \in DOMAIN sessions : StartOp(Op("delete", sessions[i], sessions, activeSessionId, Null))

handleRenameSession ==
  \E i \in DOMAIN sessions : StartOp(Op("rename", sessions[i], sessions, activeSessionId, Null))

\* sessionsAPI.create of handleCreateSession resolved.
CreateSessionOk ==
  /\ stNextId <= MaxSessions
  /\ \E i \in DOMAIN ops :
       /\ ops[i].op = "create"
       /\ sessions' = <<stNextId>> \o ops[i].sessions
       /\ ops' = RemoveAt(ops, i)
  /\ Commit(stNextId, appIsStreaming, <<>>)
  /\ stSessions' = <<stNextId>> \o stSessions
  /\ stNextId' = stNextId + 1
  /\ UNCHANGED <<decVars, stHistory, chatVars, tokenCount, selectedModel, doneTimers,
                 loads, nOps>>

\* A call of the store rejected in a handler whose catch only reports it.
OpFail ==
  /\ \E i \in DOMAIN ops :
       /\ ops[i].op \in {"create", "duplicate", "delete", "rename"}
       /\ ops' = RemoveAt(ops, i)
  /\ UNCHANGED <<decVars, storeVars, chatVars, sessions, activeSessionId, messages,
                 appIsStreaming, tokenCount, selectedModel, effTimer, doneTimers, loads,
                 nOps>>

\* sessionsAPI.duplicate resolved; loadMessages of the copy is called.
DuplicateSessionOk ==
  /\ stNextId <= MaxSessions
  /\ \E i \in DOMAIN ops :
       /\ ops[i].op = "duplicate"
       /\ InSeq(ops[i].id, stSessions)
       /\ sessions' = <<stNextId>> \o ops[i].sessions
       /\ stHistory' = [stHistory EXCEPT ![stNextId] = stHistory[ops[i].id]]
       /\ ops' = RemoveAt(ops, i)
  /\ Commit(stNextId, appIsStreaming, messages)
  /\ loads' = [loads EXCEPT ![stNextId] = @ + 1]
  /\ stSessions' = <<stNextId>> \o stSessions
  /\ stNextId' = stNextId + 1
  /\ UNCHANGED <<decVars, chatVars, tokenCount, selectedModel, doneTimers, nOps>>

\* sessionsAPI.delete resolved.
DeleteSessionOk ==
  /\ \E i \in DOMAIN ops :
       LET o == ops[i]
       IN /\ o.op = "delete"
          /\ InSeq(o.id, stSessions)
          /\ stSessions' = Without(stSessions, o.id)
          /\ stHistory' = [stHistory EXCEPT ![o.id] = <<>>]
          /\ sessions' = Without(o.sessions, o.id)
          /\ Commit(IF o.active = o.id THEN ActiveAfterDelete(o.sessions, o.id)
                    ELSE activeSessionId,
                    appIsStreaming, messages)
          /\ ops' = RemoveAt(ops, i)
  /\ UNCHANGED <<decVars, stNextId, chatVars, tokenCount, selectedModel, doneTimers,
                 loads, nOps>>

\* sessionsAPI.rename resolved; loadSessions is called.
RenameSessionOk ==
  /\ \E i \in DOMAIN ops :
       /\ ops[i].op = "rename"
       /\ InSeq(ops[i].id, stSessions)
       /\ ops' = Append(RemoveAt(ops, i), Op("list", Null, <<>>, ops[i].active, Null))
  /\ UNCHANGED <<decVars, storeVars, chatVars, sessions, activeSessionId, messages,
                 appIsStreaming, tokenCount, selectedModel, effTimer, doneTimers, loads,
                 nOps>>

\* sessionsAPI.list of loadSessions resolved, and what the caller does next.
loadSessionsOk ==
  /\ \E i \in DOMAIN ops :
       LET o == ops[i]
       IN /\ o.op = "list"
          /\ sessions' = stSessions
          /\ Commit(IF o.then # Null THEN o.then
                    ELSE IF Len(stSessions) > 0 /\ o.active = Null THEN stSessions[1]
                    ELSE activeSessionId,
                    appIsStreaming, messages)
          /\ ops' = RemoveAt(ops, i)
  /\ UNCHANGED <<decVars, storeVars, chatVars, tokenCount, selectedModel, doneTimers,
                 loads, nOps>>

\* sessionsAPI.list rejected: loadSessions reports it and its caller goes on.
loadSessionsFail ==
  /\ \E i \in DOMAIN ops :
       LET o == ops[i]
       IN /\ o.op = "list"
          /\ Commit(IF o.then # Null THEN o.then ELSE activeSessionId,
                    appIsStreaming, messages)
          /\ ops' = RemoveAt(ops, i)
  /\ UNCHANGED <<decVars, storeVars, chatVars, sessions, tokenCount, selectedModel,
                 doneTimers, loads, nOps>>

\* The 300 ms timer of the effect fires: loadMessages(activeSessionId of its render).
EffectTimerFires ==
  /\ effTimer # Null
  /\ loads' = [loads EXCEPT ![effTimer] = @ + 1]
  /\ effTimer' = Null
  /\ UNCHANGED <<decVars, storeVars, chatVars, sessions, activeSessionId, messages,
                 appIsStreaming, tokenCount, selectedModel, doneTimers, ops, nOps>>

\* The oldest 1500 ms timer of handleMessageSent fires.
DoneTimerFires ==
  /\ doneTimers # <<>>
  /\ loads' = [loads EXCEPT ![Head(doneTimers)] = @ + 1]
  /\ doneTimers' = Tail(doneTimers)
  /\ UNCHANGED <<decVars, storeVars, chatVars, sessions, activeSessionId, messages,
                 appIsStreaming, tokenCount, selectedModel, effTimer, ops, nOps>>

\* A loadMessages that adds the list it received to the list shown.
loadMessagesOk_Merges ==
  /\ \E id \in SessionIds :
       /\ loads[id] > 0
       /\ InSeq(id, stSessions)
       /\ loads' = [loads EXCEPT ![id] = @ - 1]
       /\ messages' = messages \o stHistory[id]
  /\ UNCHANGED <<decVars, storeVars, chatVars, sessions, activeSessionId, appIsStreaming,
                 tokenCount, selectedModel, effTimer, doneTimers, ops, nOps>>

\* sessionsAPI.getMessages of loadMessages resolved: setMessages(data).
loadMessagesOk ==
  /\ \E id \in SessionIds :
       /\ loads[id] > 0
       /\ InSeq(id, stSessions)
       /\ loads' = [loads EXCEPT ![id] = @ - 1]
       /\ messages' = stHistory[id]
  /\ UNCHANGED <<decVars, storeVars, chatVars, sessions, activeSessionId, appIsStreaming,
                 tokenCount, selectedModel, effTimer, doneTimers, ops, nOps>>

\* sessionsAPI.getMessages rejected.
loadMessagesFail ==
  /\ \E id \in SessionIds :
       /\ loads[id] > 0
       /\ loads' = [loads EXCEPT ![id] = @ - 1]
  /\ UNCHANGED <<decVars, storeVars, chatVars, sessions, activeSessionId, messages,
                 appIsStreaming, tokenCount, selectedModel, effTimer, doneTimers, ops, nOps>>

Next ==
  \/ handleKeyValidated
  \/ setInput(AppInputs)
  \/ handleSend
  \/ handleRegenerate
  \/ SendCreateOk
  \/ SendCreateFail
  \/ SFetchOk
  \/ SFetchNotOk({<<>>})
  \/ SFetchNoBody
  \/ SFetchThrow
  \/ SRead(AppReads)
  \/ SClose
  \/ SReadThrow({<<>>})
  \/ handleSelectSession
  \/ handleCreateSession
  \/ handleDuplicateSession
  \/ handleDeleteSession
  \/ handleRenameSession
  \/ CreateSessionOk
  \/ DuplicateSessionOk
  \/ DeleteSessionOk
  \/ RenameSessionOk
  \/ OpFail
  \/ loadSessionsOk
  \/ loadSessionsFail
  \/ EffectTimerFires
  \/ DoneTimerFires
  \/ loadMessagesOk
  \/ loadMessagesFail

Spec == Init /\ [][Next]_vars

\* The composer and its streams, with the session tabs left alone.
ChatNext ==
  \/ handleKeyValidated
  \/ setInput(ChatInputs)
  \/ handleFileSelect
  \/ handleRemoveFile
  \/ handleSend
  \/ handleRegenerate
  \/ SendCreateOk
  \/ SendCreateFail
  \/ SFetchOk
  \/ SFetchNotOk(ErrorTexts)
  \/ SFetchNoBody
  \/ SFetchThrow
  \/ SRead(ChatReads)
  \/ SClose
  \/ SReadThrow(ErrorTexts)
  \/ loadSessionsOk
  \/ loadSessionsFail

\* The application at rest after its mount: the sessions are listed and, when
\* there is one, it is active and its history is loaded.
ChatInit ==
  /\ wire = <<>>
  /\ sd = NewStream
  /\ sdCalls = <<>>
  /\ sdWhole = <<>>
  /\ sdSearch = FALSE
  /\ sdCarried = FALSE
  /\ sdReads = 0
  /\ \E n \in 0..1 :
       /\ stSessions = [i \in 1..n |-> i]
       /\ stHistory = [i \in SessionIds |-> IF i <= n THEN FirstTurn ELSE <<>>]
       /\ stNextId = n + 1
       /\ sessions = stSessions
       /\ activeSessionId = n
       /\ messages = stHistory[1]
  /\ appIsStreaming = FALSE
  /\ tokenCount = 0
  /\ selectedModel = Null
  /\ effTimer = Null
  /\ doneTimers = <<>>
  /\ loads = [i \in SessionIds |-> 0]
  /\ ops = <<>>
  /\ nOps = 0
  /\ input = <<>>
  /\ attachedFiles = <<>>
  /\ loading = FALSE
  /\ isStreaming = FALSE
  /\ streamingMessage = <<>>
  /\ searchResults = <<>>
  /\ frames = <<>>

SpecChat == ChatInit /\ [][ChatNext]_vars

\* ------------------------------------------------------------ claims

\* The terminal callbacks among calls, in order.
Terminals(calls) == SelectSeq(calls, IsTerminal)

IsChunk(c) == c.cb = "onChunk"

\* The contents of the chunk events among calls, joined in arrival order.
ChunkText(calls) ==
  LET chunks == SelectSeq(calls, IsChunk)
  IN Flatten([i \in 1..Len(chunks) |-> chunks[i].text])

\* The source was read to its end without a done or error event.
EndedWithoutTerminal == sd.pc = "returned" /\ sd.how = "closed"

\* C1: when sendMessageStream has returned, whatever the source was, it has
\* made exactly one terminal callback (onDone or onError), never none and
\* never two.
C1_ExactlyOneTerminal == sd.pc = "returned" => Len(Terminals(sdCalls)) = 1

\* C5: the callbacks of a source read to its close or to its terminal event,
\* with their arguments and in their order, are those of the same source
\* delivered in a single read, however the reads divided it.
C5_SplitIndependent ==
  (sd.pc = "returned" /\ sd.how \in {"closed", "terminal"}) => sdCalls = sdWhole

\* C5: a source delivered in two reads, the first ending inside a line, whose
\* decoding made a chunk callback and ended with a terminal callback.
C5_Witness ==
  /\ sd.pc = "returned" /\ sd.how \in {"closed", "terminal"}
  /\ sdReads = 2 /\ sdCarried
  /\ \E i \in DOMAIN sdCalls : IsChunk(sdCalls[i])
  /\ Terminals(sdCalls) # <<>>

\* C8: a source that ended without done or error after at least one chunk
\* event has exactly one terminal callback, onDone with the chunk contents
\* joined in arrival order, empty contents included.
C8_ChunksThenClosed ==
  (EndedWithoutTerminal /\ \E i \in DOMAIN sdCalls : IsChunk(sdCalls[i]))
    => Terminals(sdCalls) = <<Call("onDone", ChunkText(sdCalls), NoEvent)>>

\* C9: a source that ended without done or error and without any chunk event
\* has exactly one terminal callback, onError with the no-data message.
C9_NoChunkThenClosed ==
  (EndedWithoutTerminal /\ ~\E i \in DOMAIN sdCalls : IsChunk(sdCalls[i]))
    => Terminals(sdCalls) = <<Call("onError", MsgNoData, NoEvent)>>

\* The invocations whose sendMessageStream call has not ended yet.
Outstanding == {f \in DOMAIN frames : frames[f].pc # "end"}

\* C2: at most one submission is outstanding at a time; while one is, both
\* handleSend and handleRegenerate reject, and no invocation opens more than
\* one stream request.
C2_OneStreamAtATime ==
  /\ Cardinality(Outstanding) <= 1
  /\ Outstanding # {} => ~SendAccepted /\ ~RegenerateAccepted
  /\ \A f \in DOMAIN frames : Len(frames[f].reqs) <= 1

\* C2: a second submission is streaming after the first ended, with a model
\* selected and a regenerate button on screen.
C2_Witness ==
  /\ Len(frames) = 2
  /\ frames[1].pc = "end"
  /\ frames[2].pc = "stream" /\ frames[2].st.pc = "read"
  /\ selectedModel # Null /\ RegenerateTexts # {}

\* C3: an accepted submission whose stream call ended has signalled exactly
\* one outcome (onMessageSent or an alert), and when it is the latest
\* submission the three flags are back to false.
C3_EndsIdleWithOneOutcome ==
  \A f \in DOMAIN frames :
    frames[f].pc = "end" =>
      /\ Len(frames[f].sent) + frames[f].alerts = 1
      /\ f = Len(frames) => ~loading /\ ~isStreaming /\ ~appIsStreaming

\* C4: no step taken while App.isStreaming is and stays true changes
\* App.messages.
C4_MessagesKeptWhileStreaming ==
  [][(appIsStreaming /\ appIsStreaming') => messages' = messages]_vars

\* The handleSend invocations made with no current session.
SendsWithoutSession ==
  {f \in DOMAIN frames : frames[f].kind = "send" /\ frames[f].sessionId = Null}

\* C6: a handleSend accepted with no current session calls sessionsAPI.create
\* once and opens no stream request before it completed; the id the store
\* returned is the session_id of the one request and the newSessionId of
\* onMessageSent. A submission made with a session creates none.
C6_CreateBeforeStream ==
  \A f \in DOMAIN frames :
    LET fr == frames[f]
    IN IF f \in SendsWithoutSession
       THEN /\ fr.creates = 1
            /\ fr.pc = "create" => fr.reqs = <<>> /\ fr.currentSessionId = Null
            /\ fr.currentSessionId # Null =>
                 /\ InSeq(fr.currentSessionId, stSessions)
                 /\ Len(fr.reqs) = 1
                 /\ fr.reqs[1].session_id = fr.currentSessionId
                 /\ \A i \in DOMAIN fr.sent : fr.sent[i].newSessionId = fr.currentSessionId
       ELSE fr.creates = 0

\* C6: a handleSend with no current session created a session and completed.
C6_Witness ==
  \E f \in SendsWithoutSession :
    /\ frames[f].currentSessionId # Null
    /\ frames[f].pc = "end"
    /\ Len(frames[f].sent) = 1

\* The handleSend invocations whose sessionsAPI.create failed.
CreateFailed ==
  {f \in SendsWithoutSession : frames[f].pc # "create" /\ frames[f].currentSessionId = Null}

DoneFrames ==
  {f \in DOMAIN frames :
     /\ frames[f].pc = "end"
     /\ frames[f].terminals # <<>>
     /\ frames[f].terminals[1].ev.type = TDone}

\* C10 as stated: the text of onDone and of onMessageSent is the done event's
\* content whenever the event has one, and the accumulated chunks otherwise.
C10_DoneContentWins ==
  \A f \in DoneFrames :
    LET fr == frames[f]
        t == fr.terminals[1]
    IN /\ t.text = IF t.ev.content # <<>> THEN t.ev.content[1] ELSE fr.chunks
       /\ Len(fr.sent) = 1 /\ fr.sent[1].assistant = t.text

\* C10 amended: the text of onDone and of onMessageSent is the done event's
\* content when the event has a non-empty one, and the accumulated chunks
\* when it has none or an empty one.
C10_NonEmptyDoneContentWins ==
  \A f \in DoneFrames :
    LET fr == frames[f]
        t == fr.terminals[1]
    IN /\ t.text = IF t.ev.content # <<>> /\ t.ev.content[1] # <<>>
                   THEN t.ev.content[1] ELSE fr.chunks
       /\ Len(fr.sent) = 1 /\ fr.sent[1].assistant = t.text

\* C10: a done event whose content differs from the chunks received before it.
C10_Witness ==
  \E f \in DoneFrames :
    /\ frames[f].chunks = <<"a", "b">>
    /\ frames[f].terminals[1].ev.content = <<<<"x", "y">>>>

\* C11: a handleSend call made with no model selected, or with a trimmed
\* input that is empty and no attachment, or while loading or isStreaming,
\* changes nothing: not the composer's state, not the store (no session
\* created), not the invocations (no stream request), not App's state.
C11_RejectedSendIsNoOp ==
  [][(handleSend
      /\ (selectedModel = Null
          \/ (Trim(input) = <<>> /\ Len(attachedFiles) = 0)
          \/ loading \/ isStreaming))
     => UNCHANGED <<chatVars, storeVars, appVars>>]_vars

\* C11: a submit that only the busy test rejects: text is typed and a model
\* is selected while a regeneration streams.
C11_Witness ==
  /\ loading /\ isStreaming
  /\ selectedModel # Null
  /\ Trim(input) # <<>>
  /\ \E f \in DOMAIN frames : frames[f].pc = "stream" /\ frames[f].st.pc = "read"

\* Invocation f ends in error in this step: its onError callback or the catch
\* of its handler runs.
EndsInError(f) ==
  /\ f \in DOMAIN frames
  /\ frames[f].pc # "end" /\ frames'[f].pc = "end"
  /\ frames'[f].alerts = 1

\* C12: the step in which a submission ends in error calls no onMessageSent,
\* clears streamingMessage, returns the three flags to false, keeps
\* App.sessions, App.activeSessionId and App.messages, and leaves in the
\* store no session created for this submission.
C12_ErrorMutatesNothing ==
  [][\A f \in DOMAIN frames :
       EndsInError(f) =>
         /\ frames'[f].sent = <<>>
         /\ streamingMessage' = <<>>
         /\ ~loading' /\ ~isStreaming' /\ ~appIsStreaming'
         /\ sessions' = sessions
         /\ activeSessionId' = activeSessionId
         /\ messages' = messages
         /\ frames'[f].creates = 1 => ~InSeq(frames'[f].currentSessionId, stSessions')]_vars

\* The session the latest submission was made in (Null when there is none).
SubmitSession == IF frames = <<>> THEN Null ELSE Last(frames).sessionId

\* C13: while a stream is active and the active session is no longer the one
\* of the submission, no reload timer is pending and no getMessages call for
\* the active session is started; the step in which the stream reaches idle
\* sets the settle timer for the then-active session; and a pending settle
\* timer is always for the active session, with no stream active.
C13_ReloadDeferredToIdle ==
  [][/\ (appIsStreaming /\ appIsStreaming'
         /\ activeSessionId' # Null /\ activeSessionId' # SubmitSession') =>
           /\ effTimer' = Null
           /\ loads'[activeSessionId'] <= loads[activeSessionId']
     /\ (appIsStreaming /\ ~appIsStreaming' /\ activeSessionId' # Null) =>
           effTimer' = activeSessionId'
     /\ effTimer' # Null => effTimer' = activeSessionId' /\ ~appIsStreaming']_vars

\* C14: when a 1500 ms timer of handleMessageSent fires, the session whose
\* history it fetches is the session that is active at that moment.
C14_DelayedReloadOfCurrent ==
  [][(doneTimers # <<>> /\ doneTimers' = Tail(doneTimers)) =>
       Head(doneTimers) = activeSessionId]_vars

\* The reload timers pending for session id: the effect's 300 ms timer and
\* the 1500 ms timers of handleMessageSent.
PendingReloads(id) ==
  (IF effTimer = id THEN 1 ELSE 0)
    + Cardinality({i \in DOMAIN doneTimers : doneTimers[i] = id})

\* C15: scheduling a reload cancels a reload still pending for the same
\* session: at most one reload timer is pending for any one session.
C15_OnePendingReloadPerSession ==
  \A id \in DOMAIN loads : PendingReloads(id) <= 1

\* C16: while no session is active the history shown is empty, and no reload
\* timer set by the effect is pending for a null id.
C16_NoSessionNoHistory ==
  activeSessionId = Null => (messages = <<>> /\ effTimer = Null)

\* s is an initial part of t.
IsPrefix(s, t) == Len(s) <= Len(t) /\ SubSeq(t, 1, Len(s)) = s

\* The text the decoder of call f accumulated during the step.
Accumulated(f) ==
  SubSeq(frames'[f].st.fullResponse,
         Len(frames[f].st.fullResponse) + 1, Len(frames'[f].st.fullResponse))

C18_ResultsClearedAtTerminal ==
  (frames # <<>> /\ ~loading /\ ~isStreaming) => searchResults = <<>>

\* C19: when the initial response has a non-success status, sendMessageStream
\* makes exactly one call, onError, with the detail of the response when it
\* has one and "Streaming request failed" otherwise, and reads nothing.
C19_NonSuccessGivesOneError ==
  sd.how \in {"notok", "badbody"} =>
    /\ sdCalls = <<Call("onError",
                        IF sd.detail # <<>> THEN sd.detail ELSE MsgRequestFailed,
                        NoEvent)>>
    /\ sdReads = 0

\* A payload line whose payload fails JSON.parse.
Malformed(line) ==
  /\ StartsWith(Trim(line), DataPrefix)
  /\ ~JSONparse(Slice(Trim(line), 6)).ok

WellFormed(line) == ~Malformed(line)

\* The complete lines a read of the first n units of the wire hands to the
\* line loop.
LinesOfRead(n) ==
  Front(Split(sd.buffer \o Utf8Decode(sd.pending, SubSeq(wire, 1, n)).out))

\* The calls the line loop makes for the well-formed lines among lines.
CallsOfWellFormed(lines) ==
  ProcessLines([fullResponse |-> sd.fullResponse,
                hasReceivedData |-> sd.hasReceivedData,
                parseErrors |-> 0,
                calls |-> <<>>, returned |-> FALSE],
               SelectSeq(lines, WellFormed), sdSearch).calls

\* C20: a payload line that fails JSON parsing makes no callback and does not
\* end the decoding: the callbacks of every read are those of its well-formed
\* lines, in order, the call returns in a read only by a done or error event,
\* and a read that does not return has logged each of its malformed lines.
C20_MalformedLineSkipped ==
  [][(sd.pc = "read" /\ sdReads' = sdReads + 1) =>
       \A n \in {Len(wire) - Len(wire')} :
         LET lines == LinesOfRead(n)
             expected == CallsOfWellFormed(lines)
         IN /\ sdCalls' = sdCalls \o expected
            /\ sd'.pc = "returned" => (expected # <<>> /\ IsTerminal(Last(expected)))
            /\ sd'.pc = "read" =>
                 sd'.parseErrors - sd.parseErrors = Len(SelectSeq(lines, Malformed))]_vars

\* A malformed line was logged and the done or error event after it was still
\* delivered.
C20_Witness ==
  /\ sd.pc = "returned" /\ sd.how = "terminal"
  /\ sd.parseErrors >= 1
  /\ Len(sdCalls) >= 1 /\ IsTerminal(Last(sdCalls))

\* The event of a well-formed payload line.
EventOf(line) == JSONparse(Slice(Trim(line), 6)).data

IsPayload(line) == StartsWith(Trim(line), DataPrefix) /\ WellFormed(line)

\* The callback sendMessageStream has for an event type, "" for none.
CallbackFor(type) ==
  IF type = TChunk THEN "onChunk"
  ELSE IF type \in {TSearch, TToolCall} THEN (IF sdSearch THEN "onSearchData" ELSE "")
  ELSE IF type = TDone THEN "onDone"
  ELSE IF type = TError THEN "onError"
  ELSE ""

HasCallback(line) == CallbackFor(EventOf(line).type) # ""

\* The events of lines that have a callback, in arrival order, up to and
\* including the first done or error event.
EventsToDeliver(lines) ==
  LET payload == SelectSeq(SelectSeq(lines, IsPayload), HasCallback)
      ends == {i \in DOMAIN payload : EventOf(payload[i]).type \in {TDone, TError}}
      last == IF ends = {} THEN Len(payload)
              ELSE CHOOSE i \in ends : \A j \in ends : i <= j
  IN [i \in 1..last |-> EventOf(payload[i])]

\* C21: callbacks are made in the arrival order of the payload lines, one per
\* decoded event, and once onDone or onError has been called no further
\* callback is made, whatever follows in the same read or in later reads.
C21_CallbacksInArrivalOrder ==
  [][/\ Terminals(sdCalls) # <<>> => sdCalls' = sdCalls
     /\ (sd.pc = "read" /\ sdReads' = sdReads + 1) =>
          \A n \in {Len(wire) - Len(wire')} :
            LET events == EventsToDeliver(LinesOfRead(n))
                base == Len(sdCalls)
            IN /\ Len(sdCalls') = base + Len(events)
               /\ SubSeq(sdCalls', 1, base) = sdCalls
               /\ \A i \in DOMAIN events :
                    /\ sdCalls'[base + i].ev = events[i]
                    /\ sdCalls'[base + i].cb = CallbackFor(events[i].type)]_vars

\* A done or error event was delivered and the call returned although the
\* source still holds data after it.
C21_Witness ==
  /\ sd.pc = "returned" /\ sd.how = "terminal"
  /\ wire # <<>>
  /\ Len(sdCalls) = 1 /\ IsTerminal(sdCalls[1])

\* C22: the session id of a stream of handleSend is fixed at submit: the
\* session_id of the stream request is the sessionId of the submit, or the id
\* just created when there was none; the id reported to onMessageSent on
\* completion is that same value; and the request and the ids of the call do
\* not change while sessions are switched, created or deleted.
C22_StreamSessionFixed ==
  [][/\ \A f \in DOMAIN frames :
          frames[f].reqs # <<>> =>
            /\ frames'[f].reqs = frames[f].reqs
            /\ frames'[f].sessionId = frames[f].sessionId
            /\ frames'[f].currentSessionId = frames[f].currentSessionId
     /\ \A f \in DOMAIN frames' :
          (frames'[f].kind = "send" /\ frames'[f].reqs # <<>>) =>
            /\ Len(frames'[f].reqs) = 1
            /\ frames'[f].reqs[1].session_id =
                 (IF frames'[f].sessionId # Null THEN frames'[f].sessionId
                  ELSE frames'[f].currentSessionId)
            /\ \A i \in DOMAIN frames'[f].sent :
                 frames'[f].sent[i].newSessionId = frames'[f].reqs[1].session_id]_vars

\* A stream submitted on one session completed after the user had moved to
\* another one.
C22_Witness ==
  \E f \in DOMAIN frames :
    /\ frames[f].kind = "send" /\ frames[f].sent # <<>>
    /\ frames[f].reqs[1].session_id # Null
    /\ activeSessionId # Null
    /\ activeSessionId # frames[f].reqs[1].session_id

\* ------------------------------------------- the search-result parser alone

\* The lines the content of a search_results event is made of.
ResultLines ==
  { <<"1", ".", " ", "T">>,
    <<"2", ".", "U">>,
    <<" ", " ", " ", "U", "R", "L", ":", " ", "u">>,
    <<" ", " ", "U", "R", "L", ":", " ", "u">>,
    <<" ", " ", " ", " ", "U", "R", "L", ":", " ", "u">>,
    <<"\t", "U", "R", "L", ":", " ", "u">>,
    <<" ", " ", " ", "s">>,
    <<" ", " ", "s">>,
    <<" ", " ", " ">>,
    <<"x">>,
    <<>> }

\* The contents: up to MaxResultLines lines joined by "\n".
ResultContents ==
  { IF ls = <<>> THEN <<>> ELSE Front(JoinLines(ls)) :
      ls \in UNION {[1..n -> ResultLines] : n \in 0..MaxResultLines} }

\* The records written back as a numbered list: the numeral line, the
\* indented URL line and the indented snippet line of each record.
Numeral(i) == <<<<"1">>, <<"2">>, <<"3">>, <<"4">>, <<"5">>, <<"6">>, <<"7">>, <<"8">>, <<"9">>>>[i]

Serialize(records) ==
  Flatten([i \in 1..Len(records) |->
             Numeral(i) \o <<".", " ">> \o records[i].title \o <<"\n">>
               \o UrlMarker \o <<" ">> \o records[i].url \o <<"\n">>
               \o Indent \o records[i].snippet \o <<"\n">>])

\* wire holds the content of the one search_results event of the stream;
\* sdCalls the onSearchData calls made so far.
ParserInit ==
  /\ Idle
  /\ ops = <<>>
  /\ stSessions = <<>>
  /\ stHistory = [i \in SessionIds |-> <<>>]
  /\ stNextId = 1
  /\ wire \in ResultContents
  /\ sd = NewStream
  /\ sdCalls = <<>>
  /\ sdWhole = <<>>
  /\ sdSearch = TRUE
  /\ sdCarried = FALSE
  /\ sdReads = 0

\* onSearchData is called with the event ev.
DeliverSearchData(ev) ==
  /\ searchResults' = OnSearchData(searchResults, ev)
  /\ sdCalls' = Append(sdCalls, Call("onSearchData", <<>>, ev))
  /\ UNCHANGED <<wire, sd, sdWhole, sdSearch, sdCarried, sdReads, storeVars, appVars,
                 input, attachedFiles, loading, isStreaming, streamingMessage, frames>>

\* The search_results event of the stream arrives.
OnSearchEvent ==
  /\ sdCalls = <<>>
  /\ DeliverSearchData(Ev(TSearch, <<wire>>))

\* A second event carries the records of the first, written back as a
\* numbered list.
OnSerializedEvent ==
  /\ Len(sdCalls) = 1
  /\ DeliverSearchData(Ev(TSearch, <<Serialize(searchResults)>>))

ParserNext ==
  \/ OnSearchEvent
  \/ OnSerializedEvent

SpecParser == ParserInit /\ [][ParserNext]_vars

\* ------------------------------------------- claims on the parser

\* A line that starts with an integer and a period.
StartsRecord(line) ==
  \E k \in 1..(Len(line) - 1) :
    /\ \A j \in 1..k : IsDigit(line[j])
    /\ line[k + 1] = "."

\* A line with leading indentation.
IsIndented(line) == line # <<>> /\ line[1] \in {" ", "\t"}

\* A line whose text after its indentation begins with URL:
IsUrlLine(line) ==
  IsIndented(line) /\ StartsWith(TrimStart(line), <<"U", "R", "L", ":">>)

\* The record of the numeral line lines[h] whose other lines are
\* lines[h + 1 .. e].
RecordOf(lines, h, e) ==
  LET k == CHOOSE k \in 1..Len(lines[h]) : lines[h][k] = "." /\ \A j \in 1..(k - 1) : IsDigit(lines[h][j])
      urls == {i \in (h + 1)..e : IsUrlLine(lines[i])}
      last == CHOOSE i \in urls : \A j \in urls : j <= i
  IN [title |-> TrimStart(Slice(lines[h], k)),
      url |-> IF urls = {} THEN <<>> ELSE Trim(Slice(TrimStart(lines[last]), 4)),
      snippet |-> Flatten([i \in 1..(e - h) |->
                             IF IsIndented(lines[h + i]) /\ ~IsUrlLine(lines[h + i])
                             THEN Trim(lines[h + i]) \o <<" ">>
                             ELSE <<>>])]

\* The records the numbered list content stands for, in input order.
RecordsOf(content) ==
  LET lines == Split(content)
      heads == {i \in DOMAIN lines : StartsRecord(lines[i])}
      Nth(j) == CHOOSE h \in heads : Cardinality({g \in heads : g < h}) = j - 1
      End(h) == IF \E g \in heads : g > h
                THEN (CHOOSE g \in heads : g > h /\ \A f \in heads : f > h => g <= f) - 1
                ELSE Len(lines)
  IN [j \in 1..Cardinality(heads) |-> RecordOf(lines, Nth(j), End(Nth(j)))]

\* C23: the parser applied to a numbered list returns one record per line
\* that starts with an integer and a period, in input order, with the title,
\* the url of the record's URL line and the snippet of its other indented
\* lines; the last open record is emitted at the end of the input.
C23_ParsesNumberedList ==
  Len(sdCalls) = 1 => searchResults = RecordsOf(sdCalls[1].ev.content[1])

\* Every line of content that is indented and is not a URL line starts with
\* three spaces.
SnippetLinesCanonical(content) ==
  \A i \in DOMAIN Split(content) :
    LET line == Split(content)[i]
    IN (IsIndented(line) /\ ~IsUrlLine(line)) => StartsWith(line, Indent)

\* C24: a line whose text after its indentation begins with URL: sets the url
\* of the open record to the trimmed remainder and adds nothing to the
\* snippet, whatever the indentation: two, three or four spaces, or a tab.
C24_UrlLineAnyIndentation ==
  (Len(sdCalls) = 1 /\ SnippetLinesCanonical(sdCalls[1].ev.content[1])) =>
    LET expected == RecordsOf(sdCalls[1].ev.content[1])
    IN /\ Len(searchResults) = Len(expected)
       /\ \A j \in DOMAIN expected :
            /\ searchResults[j].url = expected[j].url
            /\ searchResults[j].snippet = expected[j].snippet

\* C25: parsing a content, writing the records back as a numbered list and
\* parsing that again yields as many records as the first parse.
C25_ReparseKeepsCount ==
  [][(Len(sdCalls) = 1 /\ Len(sdCalls') = 2) =>
       Len(searchResults') = Len(searchResults)]_vars

\* Two records, one of them with a url and a snippet, were written back and
\* parsed again.
C25_Witness ==
  /\ Len(sdCalls) = 2
  /\ Len(searchResults) = 2
  /\ \E j \in DOMAIN searchResults :
       searchResults[j].url # <<>> /\ searchResults[j].snippet # <<>>

\* C26: a search_results event whose content cannot be parsed raises nothing:
\* in the step that logs the failure searchResults keeps its value,
\* streamingMessage and the phase are unchanged, and the call goes on reading
\* the stream.
C26_UnparsableSearchDataIgnored ==
  [][\A f \in DOMAIN frames :
       frames'[f].searchErrors > frames[f].searchErrors =>
         /\ searchResults' = searchResults
         /\ streamingMessage' = streamingMessage
         /\ loading' = loading /\ isStreaming' = isStreaming
         /\ appIsStreaming' = appIsStreaming
         /\ frames'[f].alerts = frames[f].alerts
         /\ frames'[f].pc = "stream" /\ frames'[f].st.pc = "read"]_vars

\* Results of an earlier event are still held after an event without content.
C26_Witness ==
  /\ searchResults # <<>>
  /\ \E f \in DOMAIN frames :
       frames[f].searchErrors = 1 /\ frames[f].pc = "stream" /\ frames[f].reads = 2

\* The least n with 4 * n >= len: len / 4 rounded up.
QuarterRoundedUp(len) == CHOOSE n \in 0..len : 4 * n >= len /\ (n = 0 \/ 4 * (n - 1) < len)

\* C27: when a chunk of a handleSend stream has been appended, the token
\* count published is the length of the accumulated text divided by four and
\* rounded up; the values published within one stream do not decrease; and
\* the chunks "Hello " and "world" publish 2 and then 3.
C27_TokenEstimatePublished ==
  [][\A f \in DOMAIN frames :
       (frames[f].kind = "send" /\ Len(frames'[f].chunks) > Len(frames[f].chunks)) =>
         /\ tokenCount' = QuarterRoundedUp(Len(frames'[f].chunks))
         /\ frames[f].chunks # <<>> => tokenCount <= tokenCount'
         /\ frames'[f].chunks = <<"H", "e", "l", "l", "o", " ">> => tokenCount' = 2
         /\ frames'[f].chunks = <<"H", "e", "l", "l", "o", " ", "w", "o", "r", "l", "d">> =>
              (tokenCount = 2 /\ tokenCount' = 3)]_vars

\* The chunks "Hello " and "world" have arrived and 3 is published.
C27_Witness ==
  /\ tokenCount = 3
  /\ \E f \in DOMAIN frames :
       /\ frames[f].kind = "send" /\ frames[f].pc = "stream"
       /\ frames[f].chunks = <<"H", "e", "l", "l", "o", " ", "w", "o", "r", "l", "d">>

\* The step starts the regeneration f or is a step of it.
RegenerationStep(f) ==
  /\ f \in DOMAIN frames' /\ frames'[f].kind = "regen"
  /\ f \in DOMAIN frames => frames'[f] # frames[f]

\* C28: no step of a regeneration changes attachedFiles or input, and the
\* prompt of its stream request is exactly the user text it was given, one
\* of the user texts of the history, without attachment content.
C28_RegenerateKeepsAttachments ==
  [][\A f \in DOMAIN frames' :
       RegenerationStep(f) =>
         /\ attachedFiles' = attachedFiles
         /\ input' = input
         /\ frames'[f].reqs = <<[session_id |-> frames'[f].sessionId,
                                 prompt |-> frames'[f].prompt]>>
         /\ f \notin DOMAIN frames => frames'[f].prompt \in RegenerateTexts]_vars

\* A regeneration has ended and the file attached before it is still attached.
C28_Witness ==
  /\ attachedFiles = <<TheFile>>
  /\ \E f \in DOMAIN frames :
       frames[f].kind = "regen" /\ frames[f].pc = "end" /\ frames[f].terminals # <<>>

\* C29: a regeneration does what a submission does, attachments apart: when
\* a chunk has been appended the token estimate of the accumulated text is
\* published, and on completion the session id of the stream request is
\* reported to onMessageSent together with the completion text.
C29_RegenerateLikeSubmit ==
  [][\A f \in DOMAIN frames :
       frames[f].kind = "regen" =>
         /\ Len(frames'[f].chunks) > Len(frames[f].chunks) =>
              /\ streamingMessage' = frames'[f].chunks
              /\ tokenCount' = QuarterRoundedUp(Len(frames'[f].chunks))
         /\ \A i \in DOMAIN frames'[f].sent :
              /\ frames'[f].sent[i].assistant = Last(frames'[f].terminals).text
              /\ frames'[f].sent[i].newSessionId = frames'[f].reqs[1].session_id]_vars

\* C30: App.messages changes only by being replaced as a whole, by the empty
\* list or by the list a getMessages call returned; nothing is appended,
\* edited or merged, and a completed turn is not inserted locally.
C30_MessagesOnlyReplaced ==
  [][messages' # messages =>
       \/ messages' = <<>>
       \/ \E id \in SessionIds :
            /\ loads[id] > 0 /\ loads'[id] = loads[id] - 1
            /\ messages' = stHistory[id]]_vars

\* A turn was completed and saved, and the history shown is the reloaded list
\* that holds it after the turns shown before.
C30_Witness ==
  /\ Len(messages) = 4
  /\ activeSessionId # Null /\ messages = stHistory[activeSessionId]
  /\ \E f \in DOMAIN frames : frames[f].sent # <<>>

\* No reload timer is pending and no getMessages call is in flight.
ReloadsSettled ==
  /\ effTimer = Null
  /\ doneTimers = <<>>
  /\ \A id \in DOMAIN loads : loads[id] = 0

\* C31: when the last getMessages response arrives, no timer being pending,
\* the history shown is the store's history of the active session, whichever
\* session the response was for.
C31_SettledShowsActive ==
  [][(ReloadsSettled' /\ ~ReloadsSettled
      /\ \E id \in DOMAIN loads : loads'[id] < loads[id] /\ messages' = stHistory[id]
      /\ activeSessionId' # Null /\ InSeq(activeSessionId', stSessions'))
     => messages' = stHistory'[activeSessionId']]_vars

\* The call f made a terminal callback or caught an exception in the step.
EndsNotified(f) ==
  \/ frames'[f].terminals # frames[f].terminals
  \/ frames'[f].alerts # frames[f].alerts

\* C32: loading, isStreaming and App's isStreaming are equal in every state;
\* they become true together at an accepted submission, which finds them
\* false, and false together at the terminal callback or caught exception,
\* which finds them true, so that the notifications alternate; and they
\* change in no other step.
C32_FlagsAgree ==
  [][/\ loading' = isStreaming' /\ appIsStreaming' = isStreaming'
     /\ Len(frames') > Len(frames) => (~appIsStreaming /\ appIsStreaming')
     /\ \A f \in DOMAIN frames : EndsNotified(f) => (appIsStreaming /\ ~appIsStreaming')
     /\ appIsStreaming' # appIsStreaming =>
          \/ Len(frames') > Len(frames)
          \/ \E f \in DOMAIN frames : EndsNotified(f)]_vars

\* A second submission was accepted after the first had ended, and its stream
\* is going on.
C32_Witness ==
  /\ Len(frames) = 2
  /\ frames[1].pc = "end" /\ frames[1].terminals # <<>>
  /\ frames[2].pc = "stream"
  /\ loading /\ isStreaming /\ appIsStreaming

\* C33: when the source closes, the text left in the buffer is not decoded:
\* the closing step makes at most one call, none of them for an event, and
\* that call is the one the text and the data flag of the lines decoded
\* before decide: onDone with the accumulated text, onError "No data received
\* from stream" when no payload line was seen, nothing otherwise.
C33_CarryOverDiscardedAtClose ==
  [][(sd.pc = "read" /\ sd'.pc = "returned" /\ sd'.how = "closed") =>
       /\ sd'.fullResponse = sd.fullResponse
       /\ sd'.hasReceivedData = sd.hasReceivedData
       /\ SubSeq(sdCalls', 1, Len(sdCalls)) = sdCalls
       /\ LET made == SubSeq(sdCalls', Len(sdCalls) + 1, Len(sdCalls'))
          IN /\ Len(made) <= 1
             /\ \A i \in DOMAIN made : made[i].ev = NoEvent
             /\ (sd.hasReceivedData /\ sd.fullResponse # <<>>) <=>
                  (made # <<>> /\ made[1].cb = "onDone" /\ made[1].text = sd.fullResponse)
             /\ ~sd.hasReceivedData <=>
                  (made # <<>> /\ made[1].cb = "onError" /\ made[1].text = MsgNoData)]_vars

\* The source closed while a whole done line without its newline was left in
\* the buffer.
C33_Witness ==
  /\ sd.pc = "returned" /\ sd.how = "closed"
  /\ IsPayload(sd.buffer)
  /\ EventOf(sd.buffer).type = TDone

\* C34: in every reachable state activeSessionId is null or the id of a
\* session present in sessions.
C34_ActiveIsListed ==
  activeSessionId = Null \/ InSeq(activeSessionId, sessions)

\* The first session of the list other than id, or null.
FirstRemaining(ss, id) ==
  IF Without(ss, id) = <<>> THEN Null ELSE Without(ss, id)[1]

\* C35: when the store delete of handleDeleteSession(s) succeeds, s is no
\* longer in sessions; if s was the active session, activeSessionId becomes
\* the first remaining session of the list, or null when none remains;
\* otherwise activeSessionId is unchanged.  When the store delete fails,
\* sessions and activeSessionId are unchanged.
C35_DeleteOutcome ==
  [][\A i \in DOMAIN ops :
       (ops[i].op = "delete" /\ ops' = RemoveAt(ops, i)) =>
         IF stSessions' # stSessions
         THEN /\ ~InSeq(ops[i].id, sessions')
              /\ activeSessionId = ops[i].id =>
                   activeSessionId' = FirstRemaining(sessions, ops[i].id)
              /\ activeSessionId # ops[i].id => activeSessionId' = activeSessionId
         ELSE /\ sessions' = sessions
              /\ activeSessionId' = activeSessionId]_vars

====
